---- MODULE Spec2Model ----
(***************************************************************************)
(* The calculator engine of chka-eri/calki (src/unnamed/part_000): a set   *)
(* of pure transition functions over an immutable CalcState record, driven *)
(* by a caller that holds the current state and replaces it with the       *)
(* result of one transition per key press.                                 *)
(*                                                                         *)
(* Strings are sequences of one-character strings.  The three operator     *)
(* glyphs outside ASCII are written by their code point names.             *)
(*                                                                         *)
(* Numbers: the engine computes with IEEE-754 doubles and prints every     *)
(* result through toPrecision(12).  The model computes with exact decimal  *)
(* numbers (a sign, a sequence of decimal digits and a power of ten),      *)
(* rounds to 12 significant digits as toPrecision does, and cuts the range *)
(* to that of a double.  The two differ only where the binary rounding of  *)
(* an operand or of a result shows within 12 significant digits: a result  *)
(* exactly halfway between two 12-digit numbers, or a difference of two    *)
(* nearly equal operands.  Neither arises from the key sequences the       *)
(* specifications below follow.                                            *)
(*                                                                         *)
(* A definition that takes a value the source binds with `const` as a      *)
(* parameter (chainResult, equalsPrimary, computeNumbers, ...) is the rest *)
(* of the function body after that binding.                                *)
(***************************************************************************)
EXTENDS Integers, Sequences, FiniteSets, TLC

(***************************************************************************)
(* Characters and texts                                                    *)
(***************************************************************************)
OpAdd == "+"
OpSub == "U+2212"
OpMul == "U+00D7"
OpDiv == "U+00F7"
Operators == {OpAdd, OpSub, OpMul, OpDiv}

\* null for a string-valued field, and null for the operator fields
Null == <<"null">>
NoOp == "null"

ErrorText == <<"E", "r", "r", "o", "r">>
NaNText == <<"N", "a", "N">>
Zero == <<"0">>

DigitChars == {"0", "1", "2", "3", "4", "5", "6", "7", "8", "9"}

DigitVal(c) ==
  CASE c = "0" -> 0 [] c = "1" -> 1 [] c = "2" -> 2 [] c = "3" -> 3
    [] c = "4" -> 4 [] c = "5" -> 5 [] c = "6" -> 6 [] c = "7" -> 7
    [] c = "8" -> 8 [] c = "9" -> 9

DigitChar(d) ==
  CASE d = 0 -> "0" [] d = 1 -> "1" [] d = 2 -> "2" [] d = 3 -> "3"
    [] d = 4 -> "4" [] d = 5 -> "5" [] d = 6 -> "6" [] d = 7 -> "7"
    [] d = 8 -> "8" [] d = 9 -> "9"

\* JavaScript truthiness of a string-or-null value: null and "" are falsy
Truthy(t) == t # Null /\ t # <<>>

\* String.prototype.includes for a single character
Includes(t, c) == \E i \in 1..Len(t) : t[i] = c

\* String.prototype.replace(c, ''): removes the first occurrence only
ReplaceFirst(t, c) ==
  IF Includes(t, c)
    THEN LET i == CHOOSE k \in 1..Len(t) : t[k] = c /\ \A j \in 1..(k - 1) : t[j] # c
         IN SubSeq(t, 1, i - 1) \o SubSeq(t, i + 1, Len(t))
    ELSE t

\* String.prototype.slice(0, -1)
DropLast(t) == SubSeq(t, 1, Len(t) - 1)

(***************************************************************************)
(* Natural numbers as sequences of decimal digits, most significant first, *)
(* without leading zeros (zero is the empty sequence)                      *)
(***************************************************************************)
Rev(s) == [i \in 1..Len(s) |-> s[Len(s) + 1 - i]]

Zeros(k) == [i \in 1..k |-> 0]

RECURSIVE StripLead(_)
StripLead(ds) ==
  IF ds # <<>> /\ Head(ds) = 0 THEN StripLead(Tail(ds)) ELSE ds

RECURSIVE StripTrail(_)
StripTrail(ds) ==
  IF ds # <<>> /\ ds[Len(ds)] = 0 THEN StripTrail(DropLast(ds)) ELSE ds

\* digits least significant first, with a carry
RECURSIVE AddRev(_, _, _)
AddRev(x, y, c) ==
  IF x = <<>> /\ y = <<>>
    THEN IF c = 0 THEN <<>> ELSE <<c>>
    ELSE LET a == IF x = <<>> THEN 0 ELSE Head(x)
             b == IF y = <<>> THEN 0 ELSE Head(y)
             s == a + b + c
         IN <<s % 10>> \o AddRev(IF x = <<>> THEN x ELSE Tail(x),
                                 IF y = <<>> THEN y ELSE Tail(y), s \div 10)

AddDs(x, y) == StripLead(Rev(AddRev(Rev(x), Rev(y), 0)))

\* x - y for x >= y, digits least significant first, with a borrow
RECURSIVE SubRev(_, _, _)
SubRev(x, y, c) ==
  IF x = <<>>
    THEN <<>>
    ELSE LET b == IF y = <<>> THEN 0 ELSE Head(y)
             s == Head(x) - b - c
         IN <<(s + 10) % 10>> \o SubRev(Tail(x), IF y = <<>> THEN y ELSE Tail(y),
                                        IF s < 0 THEN 1 ELSE 0)

SubDs(x, y) == StripLead(Rev(SubRev(Rev(x), Rev(y), 0)))

\* -1, 0, 1 as x < y, x = y, x > y
RECURSIVE CmpSame(_, _)
CmpSame(x, y) ==
  IF x = <<>> THEN 0
  ELSE IF Head(x) < Head(y) THEN -1
  ELSE IF Head(x) > Head(y) THEN 1
  ELSE CmpSame(Tail(x), Tail(y))

CmpDs(x, y) ==
  IF Len(x) < Len(y) THEN -1
  ELSE IF Len(x) > Len(y) THEN 1
  ELSE CmpSame(x, y)

RECURSIVE MulDigitRev(_, _, _)
MulDigitRev(x, d, c) ==
  IF x = <<>>
    THEN IF c = 0 THEN <<>> ELSE <<c>>
    ELSE LET s == Head(x) * d + c
         IN <<s % 10>> \o MulDigitRev(Tail(x), d, s \div 10)

MulDigit(x, d) == StripLead(Rev(MulDigitRev(Rev(x), d, 0)))

\* the sum of the digit products x[i] * y[k + 1 - i] (digits least significant
\* first): the k-th column of the schoolbook multiplication
RECURSIVE ColSum(_, _, _, _)
ColSum(x, y, k, i) ==
  IF i > Len(x) \/ i > k
    THEN 0
    ELSE (IF k + 1 - i <= Len(y) THEN x[i] * y[k + 1 - i] ELSE 0) + ColSum(x, y, k, i + 1)

\* the columns reduced to digits, least significant first
RECURSIVE CarryRev(_, _)
CarryRev(cols, c) ==
  IF cols = <<>>
    THEN IF c = 0 THEN <<>> ELSE <<c % 10>> \o CarryRev(cols, c \div 10)
    ELSE <<(Head(cols) + c) % 10>> \o CarryRev(Tail(cols), (Head(cols) + c) \div 10)

MulDs(x, y) ==
  IF x = <<>> \/ y = <<>>
    THEN <<>>
    ELSE LET xr == Rev(x)
             yr == Rev(y)
             cols == [k \in 1..(Len(x) + Len(y) - 1) |-> ColSum(xr, yr, k, 1)]
         IN StripLead(Rev(CarryRev(cols, 0)))

\* the largest q in 0..9 with q * d <= r
QuoDigit(r, d) ==
  CHOOSE q \in 0..9 :
    /\ CmpDs(MulDigit(d, q), r) <= 0
    /\ (q = 9 \/ CmpDs(MulDigit(d, q + 1), r) > 0)

\* Long division of n by d (d # 0): the quotient's digits, one per step, until
\* `sig` significant digits are out, or the digits of n are used up and nothing
\* remains.  Returns the digits q and the power of ten e with n / d = q * 10^e
\* (truncated): the digits of n left unused, less the decimal places produced.
\* DivStep takes one step: rr is the running remainder with the next digit of n
\* brought down, qd the quotient digit it gives.
RECURSIVE DivSteps(_, _, _, _, _, _)
DivStep(n, d, rr, qd, q, places, sig) ==
  DivSteps(IF n = <<>> THEN n ELSE Tail(n), d, SubDs(rr, MulDigit(d, qd)),
           StripLead(q \o <<qd>>), IF n = <<>> THEN places + 1 ELSE places, sig)

DivBring(n, d, rr, q, places, sig) == DivStep(n, d, rr, QuoDigit(rr, d), q, places, sig)

DivSteps(n, d, r, q, places, sig) ==
  IF Len(q) >= sig \/ (n = <<>> /\ r = <<>>)
    THEN [q |-> q, e |-> Len(n) - places]
    ELSE DivBring(n, d, StripLead(r \o <<IF n = <<>> THEN 0 ELSE Head(n)>>), q, places, sig)

(***************************************************************************)
(* Numbers: NaN (standing for every non-finite double: the engine only     *)
(* ever tests Number.isFinite), or (-1)^neg * ds * 10^ex with ds a natural *)
(* number without leading or trailing zeros (zero: ds empty, ex 0, no      *)
(* sign: String(-0) is "0" and -0 === 0, so the sign of zero is never      *)
(* observable).  ToDouble cuts the range to that of a double, to the       *)
(* decimal order of magnitude: 1e309 and above is Infinity, below 1e-324   *)
(* is 0.                                                                   *)
(***************************************************************************)
NaN == [nan |-> TRUE, neg |-> FALSE, ds |-> <<>>, ex |-> 0]

NumZero == [nan |-> FALSE, neg |-> FALSE, ds |-> <<>>, ex |-> 0]

\* norm: the digits without leading and trailing zeros; e: the power of ten of
\* the digit after the last one of norm
MkNormal(neg, norm, e) ==
  IF norm = <<>>
    THEN NumZero
    ELSE [nan |-> FALSE, neg |-> neg, ds |-> norm, ex |-> e - Len(norm)]

MkLead(neg, lead, ex) == MkNormal(neg, StripTrail(lead), ex + Len(lead))

MkNum(neg, ds, ex) == MkLead(neg, StripLead(ds), ex)

IsZero(n) == ~n.nan /\ n.ds = <<>>

IsFinite(n) == ~n.nan

\* the decimal exponent of the leading digit: |n| = d.ddd * 10^Magnitude(n)
Magnitude(n) == n.ex + Len(n.ds) - 1

ToDouble(n) ==
  IF n.nan \/ IsZero(n) THEN n
  ELSE IF Magnitude(n) > 308 THEN NaN
  ELSE IF Magnitude(n) < -324 THEN NumZero
  ELSE n

NumNeg(n) == IF n.nan \/ IsZero(n) THEN n ELSE [n EXCEPT !.neg = ~n.neg]

\* x and y: the digits of |a| and |b| in units of 10^e; c compares them
AddAligned(aneg, x, bneg, y, c, e) ==
  IF aneg = bneg THEN MkNum(aneg, AddDs(x, y), e)
  ELSE IF c = 0 THEN NumZero
  ELSE IF c > 0 THEN MkNum(aneg, SubDs(x, y), e)
  ELSE MkNum(bneg, SubDs(y, x), e)

AddScaled(aneg, x, bneg, y, e) == AddAligned(aneg, x, bneg, y, CmpDs(x, y), e)

AddAt(a, b, e) ==
  AddScaled(a.neg, IF IsZero(a) THEN <<>> ELSE a.ds \o Zeros(a.ex - e),
            b.neg, IF IsZero(b) THEN <<>> ELSE b.ds \o Zeros(b.ex - e), e)

NumAdd(a, b) == AddAt(a, b, IF a.ex < b.ex THEN a.ex ELSE b.ex)

NumSub(a, b) == NumAdd(a, NumNeg(b))

NumMul(a, b) == MkNum(a.neg # b.neg, MulDs(a.ds, b.ds), a.ex + b.ex)

\* a / b for b # 0, truncated to the 17 significant digits that the text of a
\* double carries at most
DivResult(neg, r, ex) == MkNum(neg, r.q, r.e + ex)

NumDiv(a, b) ==
  IF IsZero(a)
    THEN NumZero
    ELSE DivResult(a.neg # b.neg, DivSteps(a.ds, b.ds, <<>>, <<>>, 0, 17), a.ex - b.ex)

\* (20 * p + x) * x: what the digit x takes from the remainder when it is
\* appended to the root p
SqrtTrial(p, x) == MulDigit(AddDs(p \o <<0>>, p \o <<x>>), x)

\* the largest x in 0..9 with (20 * p + x) * x <= c
SqrtDigit(p, c) ==
  CHOOSE x \in 0..9 :
    /\ CmpDs(SqrtTrial(p, x), c) <= 0
    /\ (x = 9 \/ CmpDs(SqrtTrial(p, x + 1), c) > 0)

\* The square root of n (an even number of digits) digit by digit, two digits
\* of n per step, until `sig` significant digits are out, or the digits of n
\* are used up and nothing remains.  Returns the digits q and the power of ten
\* e with sqrt(n) = q * 10^e (truncated).  SqrtTake takes one step: c is the
\* running remainder with the next two digits of n brought down, x the digit
\* of the root it gives.
RECURSIVE SqrtSteps(_, _, _, _, _)
SqrtTake(n, p, c, x, places, sig) ==
  SqrtSteps(IF n = <<>> THEN n ELSE SubSeq(n, 3, Len(n)), StripLead(p \o <<x>>),
            SubDs(c, SqrtTrial(p, x)), IF n = <<>> THEN places + 1 ELSE places, sig)

SqrtBring(n, p, c, places, sig) == SqrtTake(n, p, c, SqrtDigit(p, c), places, sig)

SqrtSteps(n, p, r, places, sig) ==
  IF Len(p) >= sig \/ (n = <<>> /\ r = <<>>)
    THEN [q |-> p, e |-> (Len(n) \div 2) - places]
    ELSE SqrtBring(n, p, StripLead(r \o (IF n = <<>> THEN <<0, 0>> ELSE SubSeq(n, 1, 2))),
                   places, sig)

\* sqrt(ds * 10^ex) for an even ex: the digits are taken in pairs, with a
\* leading 0 where that makes their number even
SqrtEven(ds, ex) ==
  DivResult(FALSE,
            SqrtSteps(IF Len(ds) % 2 = 1 THEN <<0>> \o ds ELSE ds, <<>>, <<>>, 0, 17),
            ex \div 2)

\* Math.sqrt(a) for a >= 0, truncated to 17 significant digits
NumSqrt(a) ==
  IF IsZero(a) THEN NumZero
  ELSE IF a.ex % 2 = 1 THEN SqrtEven(a.ds \o <<0>>, a.ex - 1)
  ELSE SqrtEven(a.ds, a.ex)

\* Number.prototype.toPrecision(12) followed by parseFloat: round to 12
\* significant digits, a tie away from zero
Precision == 12

RoundUp(kept, up) == IF up THEN AddDs(kept, <<1>>) ELSE kept

ToPrecision(n) ==
  IF n.nan \/ Len(n.ds) <= Precision
    THEN n
    ELSE MkNum(n.neg, RoundUp(SubSeq(n.ds, 1, Precision), n.ds[Precision + 1] >= 5),
               n.ex + Len(n.ds) - Precision)

DigitText(ds) == [i \in 1..Len(ds) |-> DigitChar(ds[i])]

ZeroText(k) == [i \in 1..k |-> "0"]

\* the digits of a natural number n >= 0
RECURSIVE NatDigits(_)
NatDigits(n) == IF n < 10 THEN <<n>> ELSE NatDigits(n \div 10) \o <<n % 10>>

\* Number::toString(10) of a positive number with the k digits ds and the
\* decimal point after the pt-th digit (value = 0.ddd * 10^pt): plain notation
\* for -6 < pt <= 21, exponent notation otherwise
PositiveToString(ds, k, pt) ==
  IF k <= pt /\ pt <= 21
    THEN DigitText(ds) \o ZeroText(pt - k)
  ELSE IF 0 < pt /\ pt <= 21
    THEN DigitText(SubSeq(ds, 1, pt)) \o <<".">> \o DigitText(SubSeq(ds, pt + 1, k))
  ELSE IF -6 < pt /\ pt <= 0
    THEN <<"0", ".">> \o ZeroText(-pt) \o DigitText(ds)
  ELSE (IF k = 1
          THEN DigitText(ds)
          ELSE <<DigitChar(ds[1]), ".">> \o DigitText(SubSeq(ds, 2, k)))
       \o <<"e", IF pt - 1 < 0 THEN "-" ELSE "+">>
       \o DigitText(NatDigits(IF pt - 1 < 0 THEN 1 - pt ELSE pt - 1))

Signed(neg, body) == IF neg THEN <<"-">> \o body ELSE body

NumToString(n) ==
  IF n.nan THEN NaNText
  ELSE IF IsZero(n) THEN Zero
  ELSE Signed(n.neg, PositiveToString(n.ds, Len(n.ds), n.ex + Len(n.ds)))

(***************************************************************************)
(* Number(text): StringToNumber for the characters an operand can hold     *)
(***************************************************************************)
IsDigits(t) == \A i \in 1..Len(t) : t[i] \in DigitChars

DigitsOf(t) == [i \in 1..Len(t) |-> DigitVal(t[i])]

IndexOf(t, c) == CHOOSE k \in 1..Len(t) : t[k] = c /\ \A j \in 1..(k - 1) : t[j] # c

\* the text before and after the first c (all of t, and nothing, without a c)
Before(t, c) == IF Includes(t, c) THEN SubSeq(t, 1, IndexOf(t, c) - 1) ELSE t

After(t, c) == IF Includes(t, c) THEN SubSeq(t, IndexOf(t, c) + 1, Len(t)) ELSE <<>>

\* the value of a digit sequence, cut off where it exceeds every exponent of a double
RECURSIVE NatOf(_, _)
NatOf(ds, acc) ==
  IF ds = <<>> \/ acc > 100000 THEN acc ELSE NatOf(Tail(ds), acc * 10 + Head(ds))

\* StrUnsignedDecimalLiteral: digits [. [digits]] [e [+-] digits] or . digits [...]
\* int, frac: the digits around the point; edigs: the exponent's digits
ParseParts(int, frac, hasE, negExp, edigs) ==
  IF /\ IsDigits(int) /\ IsDigits(frac) /\ Len(int) + Len(frac) > 0
     /\ hasE => (edigs # <<>> /\ IsDigits(edigs))
    THEN MkNum(FALSE, DigitsOf(int) \o DigitsOf(frac),
               (IF negExp THEN -1 ELSE 1) * NatOf(StripLead(DigitsOf(edigs)), 0) - Len(frac))
    ELSE NaN

ParseMantExp(mant, hasE, expo) ==
  ParseParts(Before(mant, "."), After(mant, "."), hasE,
             expo # <<>> /\ Head(expo) = "-",
             IF expo # <<>> /\ Head(expo) \in {"+", "-"} THEN Tail(expo) ELSE expo)

ParseUnsigned(t) == ParseMantExp(Before(t, "e"), Includes(t, "e"), After(t, "e"))

WithSign(neg, n) == IF neg THEN NumNeg(n) ELSE n

Number(t) ==
  IF t = <<>>
    THEN NumZero
    ELSE ToDouble(WithSign(Head(t) = "-",
                           ParseUnsigned(IF Head(t) \in {"+", "-"} THEN Tail(t) ELSE t)))

\* String(x) for the double x
String(n) == NumToString(n)

(***************************************************************************)
(* The engine's helpers                                                    *)
(***************************************************************************)
MAX_DIGITS == 16

\* sanitizeNumberString from `if (!Number.isFinite(Number(value)))` on, with
\* numeric the value of Number(value)
sanitizeNumeric(numeric) ==
  IF ~IsFinite(numeric) THEN ErrorText
  ELSE IF IsZero(numeric) THEN Zero
  ELSE NumToString(ToPrecision(numeric))

sanitizeNumberString(value) ==
  IF value = <<>> \/ value = <<"-">>
    THEN Zero
    ELSE sanitizeNumeric(Number(value))

\* appendDigit from `const normalized = ...` on
\* appendWithin with a slip: the limit is tested with > for >=
appendWithinOneMore(current, normalized, digit) ==
  IF Len(normalized) > MAX_DIGITS THEN current ELSE current \o <<digit>>

appendWithin(current, normalized, digit) ==
  IF Len(normalized) >= MAX_DIGITS THEN current ELSE current \o <<digit>>

\* appendToCurrent with a slip: a digit after a lone "0" is appended to it
appendToCurrentKeepsZero(current, digit) ==
  IF current = Zero /\ digit = "0" THEN Zero
  ELSE IF current = <<"-", "0">> /\ digit # "0" THEN <<"-", digit>>
  ELSE appendWithin(current, ReplaceFirst(ReplaceFirst(current, "-"), "."), digit)

appendToCurrent(current, digit) ==
  IF current = Zero /\ digit = "0" THEN Zero
  ELSE IF current = Zero /\ digit # "0" THEN <<digit>>
  ELSE IF current = <<"-", "0">> /\ digit # "0" THEN <<"-", digit>>
  ELSE appendWithin(current, ReplaceFirst(ReplaceFirst(current, "-"), "."), digit)

appendDigit(source, digit) ==
  appendToCurrent(IF source = ErrorText THEN Zero ELSE source, digit)

\* compute's switch: the result of a op b for finite a and b (b # 0 under division)
applyOperator(a, op, b) ==
  CASE op = OpAdd -> NumAdd(a, b)
    [] op = OpSub -> NumSub(a, b)
    [] op = OpMul -> NumMul(a, b)
    [] op = OpDiv -> NumDiv(a, b)

\* compute from `if (!Number.isFinite(a) || ...` on
computeNumbers(a, op, b) ==
  IF ~IsFinite(a) \/ ~IsFinite(b) THEN ErrorText
  ELSE IF op = OpDiv /\ IsZero(b) THEN ErrorText
  ELSE IF op \notin Operators THEN ErrorText
  ELSE sanitizeNumberString(String(ToDouble(applyOperator(a, op, b))))

compute(aRaw, op, bRaw) == computeNumbers(Number(aRaw), op, Number(bRaw))

(***************************************************************************)
(* The engine: CalcState and its transition functions                      *)
(***************************************************************************)
INITIAL_STATE ==
  [a |-> Null, op |-> NoOp, b |-> Null, display |-> Zero, prev |-> <<>>,
   typing |-> FALSE, lastOp |-> NoOp, lastB |-> Null]

\* the reset error state every failed evaluation returns
ErrorState == [INITIAL_STATE EXCEPT !.display = ErrorText]

clearAll == INITIAL_STATE

\* /^\d$/.test(digit)
IsDigitKey(digit) == digit \in DigitChars

\* state.x ?? dflt
OrElse(t, dflt) == IF t = Null THEN dflt ELSE t

\* inputDigit with a slip: on the error marker it starts the operand in the
\* state as it is, without the reset
inputDigitWithoutReset(state, digit) ==
  IF ~IsDigitKey(digit) THEN state
  ELSE IF state.display = ErrorText
    THEN [state EXCEPT !.display = <<digit>>, !.a = <<digit>>, !.typing = TRUE]
  ELSE IF state.op # NoOp
    THEN LET nextB == appendDigit(OrElse(state.b, Zero), digit)
         IN [state EXCEPT !.b = nextB, !.display = nextB, !.typing = TRUE]
  ELSE LET nextA == appendDigit(OrElse(state.a, Zero), digit)
       IN [state EXCEPT !.a = nextA, !.display = nextA, !.typing = TRUE]

inputDigit(state, digit) ==
  IF ~IsDigitKey(digit) THEN state
  ELSE IF state.display = ErrorText
    THEN [clearAll EXCEPT !.display = <<digit>>, !.a = <<digit>>, !.typing = TRUE]
  ELSE IF state.op # NoOp
    THEN LET nextB == appendDigit(OrElse(state.b, Zero), digit)
         IN [state EXCEPT !.b = nextB, !.display = nextB, !.typing = TRUE]
  ELSE LET nextA == appendDigit(OrElse(state.a, Zero), digit)
       IN [state EXCEPT !.a = nextA, !.display = nextA, !.typing = TRUE]

\* inputDot with a slip: no test for a point already there
inputDotAppendsAlways(state) ==
  IF state.display = ErrorText
    THEN [clearAll EXCEPT !.a = <<"0", ".">>, !.display = <<"0", ".">>, !.typing = TRUE]
  ELSE IF state.op # NoOp
    THEN LET source == OrElse(state.b, Zero)
             nextB == IF source = <<>> THEN <<"0", ".">> ELSE source \o <<".">>
         IN [state EXCEPT !.b = nextB, !.display = nextB, !.typing = TRUE]
  ELSE LET source == OrElse(state.a, Zero)
           nextA == IF source = <<>> THEN <<"0", ".">> ELSE source \o <<".">>
       IN [state EXCEPT !.a = nextA, !.display = nextA, !.typing = TRUE]

inputDot(state) ==
  IF state.display = ErrorText
    THEN [clearAll EXCEPT !.a = <<"0", ".">>, !.display = <<"0", ".">>, !.typing = TRUE]
  ELSE IF state.op # NoOp
    THEN LET source == OrElse(state.b, Zero)
             nextB == IF source = <<>> THEN <<"0", ".">> ELSE source \o <<".">>
         IN IF Includes(source, ".") THEN state
            ELSE [state EXCEPT !.b = nextB, !.display = nextB, !.typing = TRUE]
  ELSE LET source == OrElse(state.a, Zero)
           nextA == IF source = <<>> THEN <<"0", ".">> ELSE source \o <<".">>
       IN IF Includes(source, ".") THEN state
          ELSE [state EXCEPT !.a = nextA, !.display = nextA, !.typing = TRUE]

\* chainResult with a slip: a failed evaluation keeps the operands
chainResultKeepsOperands(state, op, result) ==
  IF result = ErrorText
    THEN [state EXCEPT !.display = ErrorText]
    ELSE [state EXCEPT !.a = result, !.b = Null, !.op = op, !.display = result,
                       !.prev = result \o <<" ", op>>, !.typing = FALSE,
                       !.lastOp = NoOp, !.lastB = Null]

\* chainResult with a slip: the remembered operator and operand are kept
chainResultRemembers(state, op, result) ==
  IF result = ErrorText
    THEN [clearAll EXCEPT !.display = ErrorText]
    ELSE [state EXCEPT !.a = result, !.b = Null, !.op = op, !.display = result,
                       !.prev = result \o <<" ", op>>, !.typing = FALSE]

\* chooseOperator's chaining branch, with result the value of compute
chainResult(state, op, result) ==
  IF result = ErrorText
    THEN [clearAll EXCEPT !.display = ErrorText]
    ELSE [state EXCEPT !.a = result, !.b = Null, !.op = op, !.display = result,
                       !.prev = result \o <<" ", op>>, !.typing = FALSE,
                       !.lastOp = NoOp, !.lastB = Null]

\* chooseOperator with a slip: substituting the operator leaves previousLine
chooseOperatorKeepsLine(state, op) ==
  IF state.display = ErrorText THEN state
  ELSE IF ~Truthy(state.a)
    THEN [state EXCEPT !.a = state.display, !.op = op,
                       !.prev = state.display \o <<" ", op>>, !.typing = FALSE]
  ELSE IF state.op # NoOp /\ Truthy(state.b)
    THEN chainResult(state, op, compute(state.a, state.op, state.b))
  ELSE [state EXCEPT !.op = op, !.typing = FALSE]

\* chooseOperator with a slip: without an operandA the display is not promoted
chooseOperatorWithoutPromotion(state, op) ==
  IF state.display = ErrorText THEN state
  ELSE IF ~Truthy(state.a)
    THEN [state EXCEPT !.op = op,
                       !.prev = state.display \o <<" ", op>>, !.typing = FALSE]
  ELSE IF state.op # NoOp /\ Truthy(state.b)
    THEN chainResult(state, op, compute(state.a, state.op, state.b))
  ELSE [state EXCEPT !.op = op, !.prev = state.a \o <<" ", op>>, !.typing = FALSE]

chooseOperator(state, op) ==
  IF state.display = ErrorText THEN state
  ELSE IF ~Truthy(state.a)
    THEN [state EXCEPT !.a = state.display, !.op = op,
                       !.prev = state.display \o <<" ", op>>, !.typing = FALSE]
  ELSE IF state.op # NoOp /\ Truthy(state.b)
    THEN chainResult(state, op, compute(state.a, state.op, state.b))
  ELSE [state EXCEPT !.op = op, !.prev = state.a \o <<" ", op>>, !.typing = FALSE]

\* backspace with a slip: the error marker is left as it is
backspaceKeepsError(state) ==
  IF state.display = ErrorText THEN state
  ELSE IF state.op # NoOp /\ state.b # Null
    THEN LET trimmed == DropLast(state.b)
             nextB == IF trimmed = <<>> \/ trimmed = <<"-">> THEN Zero ELSE trimmed
         IN [state EXCEPT !.b = IF trimmed = <<>> THEN Null ELSE nextB,
                          !.display = nextB, !.typing = (trimmed # <<>>)]
  ELSE LET source == OrElse(state.a, state.display)
           trimmed == DropLast(source)
           nextA == IF trimmed = <<>> \/ trimmed = <<"-">> THEN Zero ELSE trimmed
       IN [state EXCEPT !.a = nextA, !.display = nextA, !.typing = (trimmed # <<>>)]

\* backspace with a slip: shortening operandB leaves display as it was
backspaceKeepsDisplay(state) ==
  IF state.display = ErrorText THEN clearAll
  ELSE IF state.op # NoOp /\ state.b # Null
    THEN LET trimmed == DropLast(state.b)
             nextB == IF trimmed = <<>> \/ trimmed = <<"-">> THEN Zero ELSE trimmed
         IN [state EXCEPT !.b = IF trimmed = <<>> THEN Null ELSE nextB,
                          !.typing = (trimmed # <<>>)]
  ELSE LET source == OrElse(state.a, state.display)
           trimmed == DropLast(source)
           nextA == IF trimmed = <<>> \/ trimmed = <<"-">> THEN Zero ELSE trimmed
       IN [state EXCEPT !.a = nextA, !.display = nextA, !.typing = (trimmed # <<>>)]

\* backspace with a slip: the shortened text is written as it is
backspaceLeavesEmpty(state) ==
  IF state.display = ErrorText THEN clearAll
  ELSE IF state.op # NoOp /\ state.b # Null
    THEN LET trimmed == DropLast(state.b)
         IN [state EXCEPT !.b = IF trimmed = <<>> THEN Null ELSE trimmed,
                          !.display = trimmed, !.typing = (trimmed # <<>>)]
  ELSE LET trimmed == DropLast(OrElse(state.a, state.display))
       IN [state EXCEPT !.a = trimmed, !.display = trimmed, !.typing = (trimmed # <<>>)]

backspace(state) ==
  IF state.display = ErrorText THEN clearAll
  ELSE IF state.op # NoOp /\ state.b # Null
    THEN LET trimmed == DropLast(state.b)
             nextB == IF trimmed = <<>> \/ trimmed = <<"-">> THEN Zero ELSE trimmed
         IN [state EXCEPT !.b = IF trimmed = <<>> THEN Null ELSE nextB,
                          !.display = nextB, !.typing = (trimmed # <<>>)]
  ELSE LET source == OrElse(state.a, state.display)
           trimmed == DropLast(source)
           nextA == IF trimmed = <<>> \/ trimmed = <<"-">> THEN Zero ELSE trimmed
       IN [state EXCEPT !.a = nextA, !.display = nextA, !.typing = (trimmed # <<>>)]

\* toggleSign's local function flip
\* flip with a slip: a leading "-" is not stripped
flipPrefixes(value) ==
  IF value = Zero THEN Zero ELSE <<"-">> \o value

flip(value) ==
  IF value = Zero THEN Zero
  ELSE IF value # <<>> /\ Head(value) = "-" THEN Tail(value)
  ELSE <<"-">> \o value

toggleSign(state) ==
  IF state.display = ErrorText THEN state
  ELSE IF state.op # NoOp /\ Truthy(state.b)
    THEN LET nextB == flip(state.b)
         IN [state EXCEPT !.b = nextB, !.display = nextB]
  ELSE LET nextA == flip(OrElse(state.a, state.display))
       IN [state EXCEPT !.a = nextA, !.display = nextA]

\* n / 100; NaN / 100 is NaN
Hundredth(n) ==
  IF IsFinite(n) THEN ToDouble(NumDiv(n, Number(<<"1", "0", "0">>))) ELSE NaN

\* percent's local function convert
convert(value) == sanitizeNumberString(String(Hundredth(Number(value))))

\* percent's two results, with nextB and nextA the converted operand
percentB(state, nextB) == [state EXCEPT !.b = nextB, !.display = nextB]

percentA(state, nextA) == [state EXCEPT !.a = nextA, !.display = nextA]

\* percent with a slip: no test for the error marker
percentWithoutErrorTest(state) ==
  IF state.op # NoOp /\ Truthy(state.b)
    THEN percentB(state, convert(state.b))
  ELSE percentA(state, convert(OrElse(state.a, state.display)))

percent(state) ==
  IF state.display = ErrorText THEN state
  ELSE IF state.op # NoOp /\ Truthy(state.b)
    THEN percentB(state, convert(state.b))
  ELSE percentA(state, convert(OrElse(state.a, state.display)))

\* equalsPrimary with a slip: the evaluated operand-B is kept
equalsPrimaryKeepsOperandB(state, result) ==
  IF result = ErrorText
    THEN [clearAll EXCEPT !.display = ErrorText]
    ELSE [state EXCEPT !.a = result, !.op = NoOp, !.display = result,
            !.prev = state.a \o <<" ", state.op, " ">> \o state.b \o <<" ", "=">>,
            !.typing = FALSE, !.lastOp = state.op, !.lastB = state.b]

\* equals' primary branch, with result the value of compute
\* equalsPrimary with a slip: the operator is remembered without its operand
equalsPrimaryForgetsOperand(state, result) ==
  IF result = ErrorText
    THEN [clearAll EXCEPT !.display = ErrorText]
    ELSE [state EXCEPT !.a = result, !.b = Null, !.op = NoOp, !.display = result,
            !.prev = state.a \o <<" ", state.op, " ">> \o state.b \o <<" ", "=">>,
            !.typing = FALSE, !.lastOp = state.op, !.lastB = Null]

equalsPrimary(state, result) ==
  IF result = ErrorText
    THEN [clearAll EXCEPT !.display = ErrorText]
    ELSE [state EXCEPT !.a = result, !.b = Null, !.op = NoOp, !.display = result,
            !.prev = state.a \o <<" ", state.op, " ">> \o state.b \o <<" ", "=">>,
            !.typing = FALSE, !.lastOp = state.op, !.lastB = state.b]

\* equalsRepeat with a slip: the remembered operator and operand are used up
equalsRepeatForgets(state, result) ==
  IF result = ErrorText
    THEN [clearAll EXCEPT !.display = ErrorText]
    ELSE [state EXCEPT !.a = result, !.display = result,
            !.prev = state.a \o <<" ", state.lastOp, " ">> \o state.lastB \o <<" ", "=">>,
            !.typing = FALSE, !.lastOp = NoOp, !.lastB = Null]

\* equals' repeat branch, with result the value of compute
equalsRepeat(state, result) ==
  IF result = ErrorText
    THEN [clearAll EXCEPT !.display = ErrorText]
    ELSE [state EXCEPT !.a = result, !.display = result,
            !.prev = state.a \o <<" ", state.lastOp, " ">> \o state.lastB \o <<" ", "=">>,
            !.typing = FALSE]

equals(state) ==
  IF state.display = ErrorText THEN state
  ELSE IF state.op # NoOp /\ Truthy(state.a) /\ Truthy(state.b)
    THEN equalsPrimary(state, compute(state.a, state.op, state.b))
  ELSE IF state.op = NoOp /\ Truthy(state.a) /\ state.lastOp # NoOp /\ Truthy(state.lastB)
    THEN equalsRepeat(state, compute(state.a, state.lastOp, state.lastB))
  ELSE state

(***************************************************************************)
(* The caller (HomeScreen.onPressKey): it holds the current state and, on  *)
(* each key press, replaces it with the result of exactly one transition   *)
(* function.  presses counts the key presses since the screen was mounted; *)
(* key is the key pressed last and before the state it was pressed in (the *)
(* argument of onPressKey and the state its updater was applied to).       *)
(* typed is the run of digit keys pressed last; only SpecTyping records it *)
(* and it stays empty under the other specifications.  memory and history  *)
(* are the memory cell and the history list of the extended caller; the    *)
(* basic caller has neither and leaves them as they are.                   *)
(***************************************************************************)
VARIABLES current, presses, key, before, typed, memory, history

vars == <<current, presses, key, before, typed, memory, history>>

\* the keys besides the digits and the operators
KeyDot == "."
KeyClear == "AC"
KeyBackspace == "U+232B"
KeyEquals == "="
KeyToggleSign == "+/-"
KeyPercent == "%"

\* no key pressed yet
NoKey == "none"

Init ==
  /\ current = clearAll /\ presses = 0 /\ key = NoKey /\ before = clearAll
  /\ typed = <<>> /\ memory = NumZero /\ history = <<>>

\* onPressKey(pressed) with at most `most` key presses: next is the state the
\* state updater of the key returns, run the digits to record as typed, mem
\* and hist the memory cell and the history list the handler leaves
Handled(pressed, next, most, run, mem, hist) ==
  /\ presses < most
  /\ current' = next
  /\ presses' = presses + 1
  /\ key' = pressed
  /\ before' = current
  /\ typed' = run
  /\ memory' = mem
  /\ history' = hist

\* onPressKey(pressed) of the basic caller
Pressed(pressed, next, most, run) ==
  Handled(pressed, next, most, run, memory, history)

Press(pressed, next, most) == Pressed(pressed, next, most, typed)

\* the digit keys pressed in the model
Digits == {"0", "6", "7"}

\* Spec follows every sequence of at most MaxKeys key presses
MaxKeys == 5

Step(pressed, next) == Press(pressed, next, MaxKeys)

PressDigit == \E digit \in Digits : Step(digit, inputDigit(current, digit))

PressDot == Step(KeyDot, inputDot(current))

PressOperator == \E op \in Operators : Step(op, chooseOperator(current, op))

PressClear == Step(KeyClear, clearAll)

PressBackspace == Step(KeyBackspace, backspace(current))

PressEquals == Step(KeyEquals, equals(current))

PressToggleSign == Step(KeyToggleSign, toggleSign(current))

PressPercent == Step(KeyPercent, percent(current))

Next ==
  \/ PressDigit
  \/ PressDot
  \/ PressOperator
  \/ PressClear
  \/ PressBackspace
  \/ PressEquals
  \/ PressToggleSign
  \/ PressPercent

Spec == Init /\ [][Next]_vars

(***************************************************************************)
(* The same caller on longer key sequences over a part of the keypad: the  *)
(* digits 3 and 5, +, =, % and backspace.  These sequences reach operands  *)
(* in exponent notation (5 % % % % is 5e-8), operands that are no number   *)
(* (5e-8 backspaced to "5e-") and error states that are not the reset one. *)
(***************************************************************************)
LongDigits == {"3", "5"}

\* SpecLong follows every sequence of at most MaxKeysLong key presses
MaxKeysLong == 9

StepLong(pressed, next) == Press(pressed, next, MaxKeysLong)

LongDigit == \E digit \in LongDigits : StepLong(digit, inputDigit(current, digit))

LongAdd == StepLong(OpAdd, chooseOperator(current, OpAdd))

LongBackspace == StepLong(KeyBackspace, backspace(current))

LongEquals == StepLong(KeyEquals, equals(current))

LongPercent == StepLong(KeyPercent, percent(current))

NextLong ==
  \/ LongDigit
  \/ LongAdd
  \/ LongBackspace
  \/ LongEquals
  \/ LongPercent

SpecLong == Init /\ [][NextLong]_vars

(***************************************************************************)
(* The same caller on digit entry: an operator pressed as the first key or *)
(* not at all, then digit keys only, the digits 0 and 5.  The sequences    *)
(* are long enough to fill either operand to MAX_DIGITS digits and to      *)
(* press one digit key more.                                               *)
(***************************************************************************)
TypingDigits == {"0", "5"}

\* SpecTyping follows every such sequence of at most MaxKeysTyping key presses
MaxKeysTyping == 18

TypeDigit ==
  \E digit \in TypingDigits :
    Pressed(digit, inputDigit(current, digit), MaxKeysTyping, typed \o <<digit>>)

TypeOperator ==
  /\ presses = 0
  /\ \E op \in Operators : Pressed(op, chooseOperator(current, op), MaxKeysTyping, <<>>)

NextTyping ==
  \/ TypeDigit
  \/ TypeOperator

SpecTyping == Init /\ [][NextTyping]_vars

(***************************************************************************)
(* The same caller on operand entry: an operator pressed as the first key  *)
(* or not at all, then the digit 5, the decimal point, the sign toggle and *)
(* backspace, in sequences long enough to fill an operand with a sign, a   *)
(* point and MAX_DIGITS digits and to press one digit key more.            *)
(***************************************************************************)
EntryDigits == {"5"}

\* SpecEntry follows every such sequence of at most MaxKeysEntry key presses
MaxKeysEntry == 19

StepEntry(pressed, next) == Press(pressed, next, MaxKeysEntry)

EntryOperator ==
  /\ presses = 0
  /\ \E op \in Operators : StepEntry(op, chooseOperator(current, op))

EntryDigit == \E digit \in EntryDigits : StepEntry(digit, inputDigit(current, digit))

EntryDot == StepEntry(KeyDot, inputDot(current))

EntryToggleSign == StepEntry(KeyToggleSign, toggleSign(current))

EntryBackspace == StepEntry(KeyBackspace, backspace(current))

NextEntry ==
  \/ EntryOperator
  \/ EntryDigit
  \/ EntryDot
  \/ EntryToggleSign
  \/ EntryBackspace

SpecEntry == Init /\ [][NextEntry]_vars

(***************************************************************************)
(* The extended caller (the second HomeScreen): besides the state of the   *)
(* engine it owns a memory cell, a number that starts at 0, and a history  *)
(* list of at most 8 texts, newest first.  Its keypad adds the memory keys *)
(* MC, MR, M+ and M-, the unary keys square root, square and reciprocal,   *)
(* and CE.  The memory cell is a double: sums are kept exact here, within  *)
(* the range of a double, and any operand that is no finite number makes   *)
(* the sum no finite number.                                               *)
(***************************************************************************)
KeySqrt == "U+221A"

KeySquare == "x2"

KeyReciprocal == "1/x"

UnaryKeys == {KeySqrt, KeySquare, KeyReciprocal}

KeyMemoryClear == "MC"

KeyMemoryRecall == "MR"

KeyMemoryAdd == "M+"

KeyMemorySubtract == "M-"

KeyClearEntry == "CE"

\* the label of a unary key as the text a history entry starts with
LabelText(label) ==
  IF label = KeySqrt THEN <<"U+221A">>
  ELSE IF label = KeySquare THEN <<"x", "U+00B2">>
  ELSE <<"1", "/", "x">>

toNumber(value) == Number(value)

toDisplay(value) ==
  IF ~IsFinite(value) THEN ErrorText ELSE String(ToPrecision(value))

writeDisplay(state, nextDisplay) ==
  IF state.op # NoOp
    THEN [state EXCEPT !.b = nextDisplay, !.display = nextDisplay, !.typing = TRUE]
    ELSE [state EXCEPT !.a = nextDisplay, !.display = nextDisplay, !.typing = TRUE]

HISTORY_LIMIT == 8

pushHistory(list, entry) ==
  SubSeq(<<entry>> \o list, 1,
         IF Len(list) + 1 > HISTORY_LIMIT THEN HISTORY_LIMIT ELSE Len(list) + 1)

\* base < 0 for the square root, base === 0 for the reciprocal
unaryFails(label, base) ==
  \/ label = KeySqrt /\ IsFinite(base) /\ ~IsZero(base) /\ base.neg
  \/ label = KeyReciprocal /\ IsZero(base)

\* Math.sqrt(base), base * base, 1 / base
unaryValue(label, base) ==
  IF ~IsFinite(base) THEN NaN
  ELSE IF label = KeySqrt THEN NumSqrt(base)
  ELSE IF label = KeySquare THEN ToDouble(NumMul(base, base))
  ELSE ToDouble(NumDiv(MkNum(FALSE, <<1>>, 0), base))

unaryDisplay(label, base) == toDisplay(unaryValue(label, base))

\* the state the updater of applyUnary(label) returns
applyUnary(state, label) ==
  IF state.display = ErrorText THEN state
  ELSE IF unaryFails(label, toNumber(state.display)) THEN ErrorState
  ELSE writeDisplay(state, unaryDisplay(label, toNumber(state.display)))

\* "<name>(<display>) = <result>"
entryText(name, display, result) ==
  name \o <<"(">> \o display \o <<")", " ", "=", " ">> \o result

\* the history entry of a unary key that failed: the square root of a negative
\* number, written with the label of the key, and the reciprocal of zero,
\* written "1/(<display>) = Error"
unaryError(label, display) ==
  entryText(IF label = KeySqrt THEN <<"U+221A">> ELSE <<"1", "/">>, display, ErrorText)

\* the history list the updater of applyUnary(label) leaves
unaryHistory(list, state, label) ==
  IF state.display = ErrorText THEN list
  ELSE IF unaryFails(label, toNumber(state.display))
    THEN pushHistory(list, unaryError(label, state.display))
  ELSE pushHistory(list, entryText(LabelText(label), state.display,
                                   unaryDisplay(label, toNumber(state.display))))

\* current + value of M+; the current - value of M- is current + (-value)
memoryAdd(cell, value) ==
  IF ~IsFinite(cell) \/ ~IsFinite(value) THEN NaN ELSE ToDouble(NumAdd(cell, value))

\* the history list the equals key leaves: next is equals(current)
equalsHistory(list, next) ==
  IF Includes(next.prev, "=")
    THEN pushHistory(list, next.prev \o <<" ">> \o next.display)
    ELSE list

\* the digit keys pressed in the model
ExtendedDigits == {"0", "5"}

\* SpecExtended follows every sequence of at most MaxKeysExtended key presses
MaxKeysExtended == 4

\* a key that changes the state of the engine only
StepExtended(pressed, next) ==
  Handled(pressed, next, MaxKeysExtended, typed, memory, history)

ExtendedUnary ==
  \E label \in UnaryKeys :
    Handled(label, applyUnary(current, label), MaxKeysExtended, typed, memory,
            unaryHistory(history, current, label))

ExtendedMemoryClear ==
  Handled(KeyMemoryClear, current, MaxKeysExtended, typed, NumZero, history)

ExtendedMemoryRecall ==
  StepExtended(KeyMemoryRecall, writeDisplay(current, toDisplay(memory)))

ExtendedMemoryAdd ==
  Handled(KeyMemoryAdd, current, MaxKeysExtended, typed,
          memoryAdd(memory, toNumber(current.display)), history)

ExtendedMemorySubtract ==
  Handled(KeyMemorySubtract, current, MaxKeysExtended, typed,
          memoryAdd(memory, NumNeg(toNumber(current.display))), history)

ExtendedDigit ==
  \E digit \in ExtendedDigits : StepExtended(digit, inputDigit(current, digit))

ExtendedDot == StepExtended(KeyDot, inputDot(current))

ExtendedOperator ==
  \E op \in Operators : StepExtended(op, chooseOperator(current, op))

ExtendedClear == StepExtended(KeyClear, clearAll)

ExtendedClearEntry == StepExtended(KeyClearEntry, writeDisplay(current, Zero))

ExtendedBackspace == StepExtended(KeyBackspace, backspace(current))

ExtendedEquals ==
  Handled(KeyEquals, equals(current), MaxKeysExtended, typed, memory,
          equalsHistory(history, equals(current)))

ExtendedToggleSign == StepExtended(KeyToggleSign, toggleSign(current))

ExtendedPercent == StepExtended(KeyPercent, percent(current))

NextExtended ==
  \/ ExtendedUnary
  \/ ExtendedMemoryClear
  \/ ExtendedMemoryRecall
  \/ ExtendedMemoryAdd
  \/ ExtendedMemorySubtract
  \/ ExtendedDigit
  \/ ExtendedDot
  \/ ExtendedOperator
  \/ ExtendedClear
  \/ ExtendedClearEntry
  \/ ExtendedBackspace
  \/ ExtendedEquals
  \/ ExtendedToggleSign
  \/ ExtendedPercent

SpecExtended == Init /\ [][NextExtended]_vars

(***************************************************************************)
(* Claims                                                                  *)
(***************************************************************************)
NonError(state) == state.display # ErrorText

\* "<a> <op> <b> ="
EqualsLine(a, op, b) == a \o <<" ", op, " ">> \o b \o <<" ", "=">>

\* "<a> <op>"
OperatorLine(a, op) == a \o <<" ", op>>

\* the state after the keys 7, x, 6
Keys7Times6 == inputDigit(chooseOperator(inputDigit(clearAll, "7"), OpMul), "6")

\* C1: equals, primary case.  In every reachable non-error state where
\* operator, operandA and operandB are all set and the computation succeeds,
\* equals returns operandA = display = compute(a, op, b), operandB and operator
\* unset, previousLine = "<a> <op> <b> =" built from the operands before the
\* call, lastOperator = op, lastOperandB = b and isTyping = false; and
\* clearAll, 7, x, 6, = gives display "42" and previousLine "7 x 6 =".
C1_EqualsPrimary ==
  LET result == compute(current.a, current.op, current.b)
      next == equals(current)
  IN /\ (/\ NonError(current)
         /\ current.op # NoOp /\ current.a # Null /\ current.b # Null
         /\ result # ErrorText)
        => next = [a |-> result, op |-> NoOp, b |-> Null, display |-> result,
                   prev |-> EqualsLine(current.a, current.op, current.b),
                   typing |-> FALSE, lastOp |-> current.op, lastB |-> current.b]
     /\ current = Keys7Times6
        => /\ next.display = <<"4", "2">>
           /\ next.prev = <<"7", " ", OpMul, " ", "6", " ", "=">>

\* = pressed after the keys 7, x, 6
C1_Witness ==
  /\ presses = 4 /\ key = KeyEquals /\ before = Keys7Times6
  /\ current = [a |-> <<"4", "2">>, op |-> NoOp, b |-> Null, display |-> <<"4", "2">>,
                prev |-> <<"7", " ", OpMul, " ", "6", " ", "=">>, typing |-> FALSE,
                lastOp |-> OpMul, lastB |-> <<"6">>]

\* the states of equals' repeat case: no operator pending, operandA set and a
\* remembered operator and operand
RepeatCase(state) ==
  /\ NonError(state)
  /\ state.op = NoOp /\ state.a # Null
  /\ state.lastOp # NoOp /\ state.lastB # Null

\* the states with nothing to evaluate: an operator pending but operandB unset,
\* or no operator pending and no remembered pair
NothingToEvaluate(state) ==
  /\ NonError(state)
  /\ \/ state.op # NoOp /\ state.b = Null
     \/ state.op = NoOp /\ (state.lastOp = NoOp \/ state.lastB = Null)

\* the state after the keys 5, +, 3, =
Keys5Plus3Equals ==
  equals(inputDigit(chooseOperator(inputDigit(clearAll, "5"), OpAdd), "3"))

\* C2 as stated: whenever = is pressed in a state of the repeat case, the new
\* operandA and display are compute(operandA, lastOperator, lastOperandB),
\* previousLine is "<a> <lastOperator> <lastOperandB> =" and lastOperator and
\* lastOperandB are unchanged.
C2_AsStated ==
  (key = KeyEquals /\ RepeatCase(before))
    => /\ current.a = compute(before.a, before.lastOp, before.lastB)
       /\ current.display = current.a
       /\ current.prev = EqualsLine(before.a, before.lastOp, before.lastB)
       /\ current.lastOp = before.lastOp
       /\ current.lastB = before.lastB

\* C2: repeated equals.  Whenever = is pressed in a state of the repeat case
\* and compute(operandA, lastOperator, lastOperandB) succeeds, the new state is
\* the old one with operandA = display = that result, previousLine =
\* "<a> <lastOperator> <lastOperandB> =" and isTyping = false (lastOperator and
\* lastOperandB unchanged, so further = presses repeat the step); when the
\* computation fails, the new state is the reset error state.  5, +, 3, =, =
\* shows 8 then 11.  With nothing to evaluate, = leaves the state unchanged.
C2_RepeatedEquals ==
  LET result == compute(before.a, before.lastOp, before.lastB)
  IN /\ (key = KeyEquals /\ RepeatCase(before) /\ result # ErrorText)
        => current = [before EXCEPT !.a = result, !.display = result,
                        !.prev = EqualsLine(before.a, before.lastOp, before.lastB),
                        !.typing = FALSE]
     /\ (key = KeyEquals /\ RepeatCase(before) /\ result = ErrorText)
        => current = ErrorState
     /\ (key = KeyEquals /\ before = Keys5Plus3Equals)
        => before.display = <<"8">> /\ current.display = <<"1", "1">>
     /\ (key = KeyEquals /\ NothingToEvaluate(before))
        => current = before

\* the second = of 5, +, 3, =, =
C2_Witness ==
  /\ presses = 5 /\ key = KeyEquals /\ before = Keys5Plus3Equals
  /\ current.display = <<"1", "1">>
  /\ current.prev = <<"8", " ", OpAdd, " ", "3", " ", "=">>
  /\ current.lastOp = OpAdd /\ current.lastB = <<"3">>

\* the states with a division pending whose operandB is numerically zero
DivideByZero(state) ==
  state.op = OpDiv /\ state.b # Null /\ IsZero(Number(state.b))

\* C3: division by zero.  Whenever = or an operator key is pressed while the
\* pending operation is the division and operandB is numerically zero, whatever
\* operandA is, the new state is the reset error state: the initial state with
\* display "Error".
C3_DivisionByZero ==
  (key \in Operators \cup {KeyEquals} /\ DivideByZero(before))
    => /\ current = ErrorState
       /\ current = [a |-> Null, op |-> NoOp, b |-> Null, display |-> ErrorText,
                     prev |-> <<>>, typing |-> FALSE, lastOp |-> NoOp, lastB |-> Null]

\* an operator pressed after 7, division, 0 and a decimal point
C3_Witness ==
  /\ key \in Operators
  /\ before.a = <<"7">> /\ before.op = OpDiv /\ before.b = <<"0", ".">>
  /\ current = ErrorState

\* C4 as stated: whenever a key is pressed while display is "Error", only AC,
\* a digit or the decimal point give a display other than "Error", and the
\* sign toggle, percent, an operator and backspace leave the state unchanged.
C4_AsStated ==
  (key # NoKey /\ before.display = ErrorText)
    => /\ current.display # ErrorText => key \in {KeyClear, KeyDot} \cup DigitChars
       /\ key \in {KeyToggleSign, KeyPercent, KeyBackspace} \cup Operators
            => current = before

\* C4: whenever a key is pressed while display is "Error": AC, a digit, the
\* decimal point and backspace give a display other than "Error"; the sign
\* toggle, percent, an operator and = leave the state unchanged.
C4_ErrorRecovery ==
  (key # NoKey /\ before.display = ErrorText)
    => /\ key \in {KeyClear, KeyDot, KeyBackspace} \cup DigitChars
            => current.display # ErrorText
       /\ key \in {KeyToggleSign, KeyPercent, KeyEquals} \cup Operators
            => current = before

\* backspace pressed while display is "Error"
C4_Witness ==
  /\ key = KeyBackspace /\ before.display = ErrorText
  /\ current.display = Zero

\* C5: in every reachable state whose display is "Error", chooseOperator (for
\* each operator), equals, toggleSign and percent return their input.
C5_ErrorNoOps ==
  current.display = ErrorText
    => /\ \A op \in Operators : chooseOperator(current, op) = current
       /\ equals(current) = current
       /\ toggleSign(current) = current
       /\ percent(current) = current

\* percent pressed in an error state that is not the reset one: operandA is
\* the error marker and an operator is pending
C5_Witness ==
  /\ key = KeyPercent /\ before.display = ErrorText
  /\ before.a = ErrorText /\ before.op = OpAdd
  /\ current = before

\* C6: leaving the error state discards everything.  In every reachable state
\* whose display is "Error", inputDigit(d) returns the initial state except
\* operandA = display = d and isTyping = true, inputDot returns the initial
\* state except operandA = display = "0." and isTyping = true, and backspace
\* returns the initial state.
C6_ErrorDiscarded ==
  current.display = ErrorText
    => /\ \A d \in DigitChars :
            inputDigit(current, d) =
              [INITIAL_STATE EXCEPT !.a = <<d>>, !.display = <<d>>, !.typing = TRUE]
       /\ inputDot(current) =
            [INITIAL_STATE EXCEPT !.a = <<"0", ".">>, !.display = <<"0", ".">>,
                                  !.typing = TRUE]
       /\ backspace(current) = INITIAL_STATE

\* a digit pressed in an error state with an operator pending and a
\* previousLine
C6_Witness ==
  /\ key = "5" /\ before.display = ErrorText
  /\ before.op = OpAdd /\ before.prev # <<>>
  /\ current = [INITIAL_STATE EXCEPT !.a = <<"5">>, !.display = <<"5">>, !.typing = TRUE]

\* C7 as stated: whenever the sign toggle, percent or backspace is pressed in
\* a non-error state with an operator pending, operandA is unchanged.
C7_ActiveOperand ==
  (key \in {KeyToggleSign, KeyPercent, KeyBackspace}
     /\ NonError(before) /\ before.op # NoOp)
    => current.a = before.a

\* C8 as stated: whenever a digit d is pressed in a non-error state with
\* isTyping = false, the text of the active operand becomes d.
C8_FreshOperand ==
  (key \in DigitChars /\ NonError(before) /\ ~before.typing)
    => (IF before.op # NoOp THEN current.b ELSE current.a) = <<key>>

\* C9: chooseOperator, chaining.  In every reachable non-error state where
\* operandA, a pending operator and operandB are all set and the pending
\* computation succeeds, chooseOperator(op') returns operandA = display =
\* compute(a, op, b), operandB unset, operator = op', previousLine =
\* "<result> <op'>", isTyping = false and lastOperator and lastOperandB unset;
\* equals returns that state unchanged.
C9_Chaining ==
  LET result == compute(current.a, current.op, current.b)
  IN (/\ NonError(current)
      /\ current.a # Null /\ current.op # NoOp /\ current.b # Null
      /\ result # ErrorText)
       => \A op \in Operators :
            LET next == chooseOperator(current, op)
            IN /\ next = [a |-> result, op |-> op, b |-> Null, display |-> result,
                          prev |-> OperatorLine(result, op), typing |-> FALSE,
                          lastOp |-> NoOp, lastB |-> Null]
               /\ equals(next) = next

\* + pressed after the keys 7, x, 6
C9_Witness ==
  /\ key = OpAdd /\ before = Keys7Times6
  /\ current.a = <<"4", "2">> /\ current.op = OpAdd /\ current.b = Null
  /\ current.prev = <<"4", "2", " ", OpAdd>>

\* C10: operator substitution.  In every reachable non-error state where
\* operandA is set and operandB is unset, chooseOperator(op') returns the state
\* with operator = op', previousLine = "<operandA> <op'>" and isTyping = false
\* and every other field unchanged; a second chooseOperator(op'') gives the
\* state that chooseOperator(op'') alone gives.
C10_Substitution ==
  (NonError(current) /\ current.a # Null /\ current.b = Null)
    => \A op \in Operators :
         LET next == chooseOperator(current, op)
         IN /\ next = [current EXCEPT !.op = op,
                                      !.prev = OperatorLine(current.a, op),
                                      !.typing = FALSE]
            /\ \A other \in Operators :
                 chooseOperator(next, other) = chooseOperator(current, other)

\* x pressed right after + with operandA 7
C10_Witness ==
  /\ key = OpMul
  /\ before.a = <<"7">> /\ before.op = OpAdd /\ before.b = Null
  /\ current = [before EXCEPT !.op = OpMul, !.prev = <<"7", " ", OpMul>>]

\* the state after the keys division, 0
KeysDivide0 == inputDigit(chooseOperator(clearAll, OpDiv), "0")

\* C11: chooseOperator with no operandA.  In every reachable non-error state
\* with operandA unset, chooseOperator(op) returns the state with operandA =
\* the display text, operator = op, previousLine = "<display> <op>" and
\* isTyping = false, display and every other field unchanged; and = pressed
\* after clearAll, division, 0 gives display "Error".
C11_PromoteDisplay ==
  /\ (NonError(current) /\ current.a = Null)
       => \A op \in Operators :
            chooseOperator(current, op) =
              [current EXCEPT !.a = current.display, !.op = op,
                              !.prev = OperatorLine(current.display, op),
                              !.typing = FALSE]
  /\ (key = KeyEquals /\ before = KeysDivide0) => current.display = ErrorText

\* division pressed as the first key
C11_Witness ==
  /\ presses = 1 /\ key = OpDiv /\ before = clearAll
  /\ current.a = Zero /\ current.op = OpDiv /\ current.display = Zero
  /\ current.prev = <<"0", " ", OpDiv>>

\* the text of the operand that digit keys go to: operandB while an operator
\* is pending, operandA otherwise
ActiveOperand(state) == IF state.op # NoOp THEN state.b ELSE state.a

\* a digit sequence with its leading zeros collapsed: "0" for zeros only
RECURSIVE LeadingZerosCollapsed(_)
LeadingZerosCollapsed(t) ==
  IF Len(t) > 1 /\ Head(t) = "0" THEN LeadingZerosCollapsed(Tail(t)) ELSE t

\* 16 times the digit 5
Sixteen5 == [i \in 1..16 |-> "5"]

\* C12: digit entry.  After every sequence of digit keys of at most 16
\* significant digits, typed after clearAll or after an operator, the active
\* operand (operandA, or operandB after an operator) and display are the typed
\* sequence with its leading zeros collapsed.
C12_DigitEntry ==
  (typed # <<>> /\ Len(LeadingZerosCollapsed(typed)) <= 16)
    => /\ ActiveOperand(current) = LeadingZerosCollapsed(typed)
       /\ current.display = LeadingZerosCollapsed(typed)

\* 0 and sixteen times 5 typed after an operator
C12_Witness ==
  /\ current.op # NoOp
  /\ typed = <<"0">> \o Sixteen5
  /\ current.b = Sixteen5 /\ current.display = Sixteen5

\* the number of digits in a text, sign and decimal point not counted
DigitCount(t) == Cardinality({i \in 1..Len(t) : t[i] \in DigitChars})

\* C13: digit cap.  In every reachable non-error state whose active operand
\* holds 16 digits, inputDigit returns a state with the same operand text and
\* the same display for every digit; and no operand reached by digit, decimal
\* point, sign and backspace keys holds more than 16 digits.
C13_DigitCap ==
  /\ (/\ NonError(current)
      /\ ActiveOperand(current) # Null
      /\ DigitCount(ActiveOperand(current)) = 16)
       => \A d \in DigitChars :
            /\ ActiveOperand(inputDigit(current, d)) = ActiveOperand(current)
            /\ inputDigit(current, d).display = current.display
  /\ current.a # Null => DigitCount(current.a) <= 16
  /\ current.b # Null => DigitCount(current.b) <= 16

\* the digit 5 pressed on an operandB with a sign, a point and 16 digits
C13_Witness ==
  /\ key = "5" /\ before.op # NoOp
  /\ DigitCount(before.b) = 16
  /\ Head(before.b) = "-" /\ Includes(before.b, ".")
  /\ current.b = before.b /\ current.display = before.display

\* C14: display mirror.  In every reachable state display equals operandB when
\* an operator is pending and operandB is set, equals operandA when no operator
\* is pending and operandA is set, and otherwise is operandA's text, "0" or
\* "Error".
C14_DisplayMirror ==
  IF current.op # NoOp /\ current.b # Null
    THEN current.display = current.b
  ELSE IF current.op = NoOp /\ current.a # Null
    THEN current.display = current.a
  ELSE \/ current.a # Null /\ current.display = current.a
       \/ current.display = Zero
       \/ current.display = ErrorText

\* backspace pressed on the one-character operandB "6" while operandA is 7:
\* operandB is unset again and display shows "0"
C14_Witness ==
  /\ key = KeyBackspace
  /\ before.a = <<"7">> /\ before.op # NoOp /\ before.b = <<"6">>
  /\ current.b = Null /\ current.display = Zero /\ current.a = <<"7">>

NegativeZero == <<"-", "0">>

Unsigned(t) == IF t # <<>> /\ Head(t) = "-" THEN Tail(t) ELSE t

\* a text with no redundant leading zero (a leading 0 is followed by no
\* further digit) that is not the negative zero "-0"
CanonicalText(t) ==
  /\ t # NegativeZero
  /\ ~(Len(Unsigned(t)) >= 2 /\ Unsigned(t)[1] = "0" /\ Unsigned(t)[2] \in DigitChars)

\* C16 as stated: in every reachable state operandA, operandB and display,
\* when set and not "Error", have no redundant leading zeros and are not "-0".
C16_CanonicalText ==
  /\ current.a \notin {Null, ErrorText} => CanonicalText(current.a)
  /\ current.b \notin {Null, ErrorText} => CanonicalText(current.b)
  /\ current.display # ErrorText => CanonicalText(current.display)

\* the number of decimal points in a text
PointCount(t) == Cardinality({i \in 1..Len(t) : t[i] = "."})

\* the state with text as the active operand and as display, isTyping set
WithActiveOperand(state, text) ==
  IF state.op # NoOp
    THEN [state EXCEPT !.b = text, !.display = text, !.typing = TRUE]
    ELSE [state EXCEPT !.a = text, !.display = text, !.typing = TRUE]

\* C17: decimal point entry.  In every reachable non-error state inputDot
\* returns the state unchanged when the active operand contains a point;
\* otherwise it appends "." to the active operand, an unset one becoming "0.",
\* and shows it; and no reachable operand or display holds more than one
\* decimal point.
C17_DecimalPoint ==
  /\ NonError(current)
       => inputDot(current) =
            IF ActiveOperand(current) = Null
              THEN WithActiveOperand(current, <<"0", ".">>)
            ELSE IF Includes(ActiveOperand(current), ".")
              THEN current
            ELSE WithActiveOperand(current, ActiveOperand(current) \o <<".">>)
  /\ current.a # Null => PointCount(current.a) <= 1
  /\ current.b # Null => PointCount(current.b) <= 1
  /\ PointCount(current.display) <= 1

\* the decimal point pressed on an operandB that holds one: nothing changes
C17_Witness ==
  /\ key = KeyDot
  /\ before.op # NoOp /\ before.b = <<"6", ".">>
  /\ current = before

\* C18: backspace never produces empty text.  In every reachable non-error
\* state whose active operand is a single character, backspace returns display
\* "0" and isTyping = false; and in every reachable state display is neither
\* the empty text nor a lone "-".
C18_NeverEmpty ==
  /\ (/\ NonError(current)
      /\ ActiveOperand(current) # Null
      /\ Len(ActiveOperand(current)) = 1)
       => /\ backspace(current).display = Zero
          /\ backspace(current).typing = FALSE
  /\ current.display # <<>>
  /\ current.display # <<"-">>

\* backspace pressed on operandA 7
C18_Witness ==
  /\ key = KeyBackspace
  /\ before.op = NoOp /\ before.a = <<"7">> /\ before.typing
  /\ current.a = Zero /\ current.display = Zero /\ ~current.typing

\* C19 as stated: whenever backspace is pressed in a non-error state with an
\* operator pending and an operandB that a removed last character leaves
\* empty or a lone "-", display becomes "0", operandB is unset, the operator
\* and operandA are unchanged, and equals returns the new state unchanged.
C19_OperandBUnset ==
  (/\ key = KeyBackspace
   /\ NonError(before) /\ before.op # NoOp /\ before.b # Null
   /\ DropLast(before.b) \in {<<>>, <<"-">>})
    => /\ current.display = Zero
       /\ current.b = Null
       /\ current.op = before.op /\ current.a = before.a
       /\ equals(current) = current

\* C20: structure.  In every reachable state operandB set implies an operator
\* pending, an operator pending implies operandA set, and lastOperator and
\* lastOperandB are both set or both unset.
C20_Structure ==
  /\ current.b # Null => current.op # NoOp
  /\ current.op # NoOp => current.a # Null
  /\ (current.lastOp # NoOp) <=> (current.lastB # Null)

\* a digit typed into operandB after an earlier = left a remembered pair:
\* both operands, the operator and the pair are set
C20_Witness ==
  /\ key \in DigitChars
  /\ current.a # Null /\ current.op # NoOp /\ current.b # Null
  /\ current.lastOp # NoOp /\ current.lastB # Null

\* C21 as stated: in every reachable non-error state with an operator
\* pending, previousLine is "<operandA> <operator>" for the operandA and the
\* operator of the state.
C21_TraceConsistency ==
  (NonError(current) /\ current.op # NoOp)
    => current.prev = OperatorLine(current.a, current.op)


\* an operand slot holds the text "Error" while a number is being typed
ErrorOperand(state) ==
  state.typing /\ (state.a = ErrorText \/ state.b = ErrorText)

\* C22 as stated: in the extended caller the memory cell holds a finite
\* number after any sequence of key presses, M+ and M- pressed while display
\* is "Error" leave it a finite number, and MR never leaves a state with
\* operandA or operandB = "Error" and isTyping = true.
C22_MemoryCell ==
  /\ IsFinite(memory)
  /\ (key \in {KeyMemoryAdd, KeyMemorySubtract} /\ before.display = ErrorText)
       => IsFinite(memory)
  /\ key = KeyMemoryRecall => ~ErrorOperand(current)

====
